---- MODULE Spec2Model ----
(***************************************************************************)
(* Model of the JSON-RPC stdio client in src/src/main.rs: the frame codec  *)
(* (generate_rpc_request / consume_json_rpc_message), the identifier       *)
(* counter and the table of issued commands, the interactive loop          *)
(* (handle_stdin), the response pump (handle_stdout) and the coordinator   *)
(* (run_server), together with the language server as the environment.     *)
(*                                                                         *)
(* Bytes are one-character strings; a byte string is a sequence of them.   *)
(***************************************************************************)
EXTENDS Integers, Sequences, FiniteSets, TLC

-----------------------------------------------------------------------------
(* Characters and the string literals of the source.                       *)

CR == "\r"
LF == "\n"
TAB == "\t"
Q == "\""
BS == "\\"

DigitChars == <<"0", "1", "2", "3", "4", "5", "6", "7", "8", "9">>
DigitSet == {DigitChars[i] : i \in 1..10}
DigitVal(c) == CHOOSE d \in 0..9 : DigitChars[d + 1] = c

HeaderToken == <<"C", "o", "n", "t", "e", "n", "t", "-", "L", "e", "n", "g", "t", "h", ":", " ">>
RPC_VERSION == <<"2", ".", "0">>
LANGUAGE_ID == <<"c">>
UriScheme == <<"f", "i", "l", "e", ":", "/", "/">>
FilePath == <<"/", "m", ".", "c">>
Source == <<"x">>
KeyJsonrpc == <<"j", "s", "o", "n", "r", "p", "c">>
KeyMethod == <<"m", "e", "t", "h", "o", "d">>
KeyParams == <<"p", "a", "r", "a", "m", "s">>
KeyId == <<"i", "d">>
KeyResult == <<"r", "e", "s", "u", "l", "t">>
KeyError == <<"e", "r", "r", "o", "r">>
KeyCode == <<"c", "o", "d", "e">>
KeyMessage == <<"m", "e", "s", "s", "a", "g", "e">>
KeyTextDocument == <<"t", "e", "x", "t", "D", "o", "c", "u", "m", "e", "n", "t">>
KeyUri == <<"u", "r", "i">>
KeyLanguageId == <<"l", "a", "n", "g", "u", "a", "g", "e", "I", "d">>
KeyVersion == <<"v", "e", "r", "s", "i", "o", "n">>
KeyText == <<"t", "e", "x", "t">>
KeyPosition == <<"p", "o", "s", "i", "t", "i", "o", "n">>
KeyLine == <<"l", "i", "n", "e">>
KeyCharacter == <<"c", "h", "a", "r", "a", "c", "t", "e", "r">>
KeyName == <<"n", "a", "m", "e">>
KeyLocation == <<"l", "o", "c", "a", "t", "i", "o", "n">>
KeyRange == <<"r", "a", "n", "g", "e">>
MethodInitialize == <<"i", "n", "i", "t", "i", "a", "l", "i", "z", "e">>
MethodDidOpen == <<"t", "e", "x", "t", "D", "o", "c", "u", "m", "e", "n", "t", "/", "d", "i", "d", "O", "p", "e", "n">>
MethodDefinition == <<"t", "e", "x", "t", "D", "o", "c", "u", "m", "e", "n", "t", "/", "d", "e", "f", "i", "n", "i", "t", "i", "o", "n">>
MethodReferences == <<"t", "e", "x", "t", "D", "o", "c", "u", "m", "e", "n", "t", "/", "r", "e", "f", "e", "r", "e", "n", "c", "e", "s">>
MethodDocumentSymbol == <<"t", "e", "x", "t", "D", "o", "c", "u", "m", "e", "n", "t", "/", "d", "o", "c", "u", "m", "e", "n", "t", "S", "y", "m", "b", "o", "l">>
MethodDidClose == <<"t", "e", "x", "t", "D", "o", "c", "u", "m", "e", "n", "t", "/", "d", "i", "d", "C", "l", "o", "s", "e">>
MethodExit == <<"e", "x", "i", "t">>
UnknownMethod == <<"U", "n", "k", "n", "o", "w", "n", " ", "m", "e", "t", "h", "o", "d">>
StrHelp == <<"h", "e", "l", "p">>
StrDef == <<"d", "e", "f">>
StrSym == <<"s", "y", "m">>
StrRef == <<"r", "e", "f">>
StrQuit == <<"q", "u", "i", "t">>
StrUnknown == <<"u", "n", "k", "n", "o", "w", "n">>
WordNull == <<"n", "u", "l", "l">>
WordTrue == <<"t", "r", "u", "e">>
WordFalse == <<"f", "a", "l", "s", "e">>
Alphabet ==
  <<TAB, LF, CR, " ", "!", "\"", "#", "$", "%", "&", "'", "(", ")", "*", "+", ",", "-", ".", "/", "0", "1", "2", "3", "4", "5", "6", "7", "8", "9", ":", ";", "<", "=", ">", "?", "@", "A", "B", "C", "D", "E", "F", "G", "H", "I", "J", "K", "L", "M", "N", "O", "P", "Q", "R", "S", "T", "U", "V", "W", "X", "Y", "Z", "[", "\\", "]", "^", "_", "a", "b", "c", "d", "e", "f", "g", "h", "i", "j", "k", "l", "m", "n", "o", "p", "q", "r", "s", "t", "u", "v", "w", "x", "y", "z", "{", "|", "}", "~">>

-----------------------------------------------------------------------------
(* serde_json::Value.  A value is a record of one shape: t is the kind,    *)
(* n the number (or 0/1 of a boolean), s the characters of a string and m  *)
(* the members of an array or object, each [k |-> key, v |-> value]; the   *)
(* members of an object are kept sorted by key, as serde_json's map does.  *)

JNull == [t |-> "null", n |-> 0, s |-> <<>>, m |-> <<>>]
JBool(b) == [t |-> "bool", n |-> IF b THEN 1 ELSE 0, s |-> <<>>, m |-> <<>>]
JNum(x) == [t |-> "num", n |-> x, s |-> <<>>, m |-> <<>>]
JStr(str) == [t |-> "str", n |-> 0, s |-> str, m |-> <<>>]
JArr(items) == [t |-> "arr", n |-> 0, s |-> <<>>, m |-> [i \in 1..Len(items) |-> [k |-> <<>>, v |-> items[i]]]]
JObj(members) == [t |-> "obj", n |-> 0, s |-> <<>>, m |-> members]
Member(key, value) == [k |-> key, v |-> value]

(* Option<T>: None and Some(x).                                            *)
NoneValue == [some |-> FALSE, v |-> JNull]
SomeValue(x) == [some |-> TRUE, v |-> x]
NoneId == [some |-> FALSE, v |-> 0]
SomeId(x) == [some |-> TRUE, v |-> x]

(* The order of the characters, as bytes.                                  *)
Rank == [c \in {Alphabet[i] : i \in 1..Len(Alphabet)} |->
            CHOOSE i \in 1..Len(Alphabet) : Alphabet[i] = c]

RECURSIVE KeyLess(_, _)
KeyLess(a, b) ==
    IF b = <<>> THEN FALSE
    ELSE IF a = <<>> THEN TRUE
    ELSE IF a[1] = b[1] THEN KeyLess(Tail(a), Tail(b))
    ELSE Rank[a[1]] < Rank[b[1]]

(* Map::insert: replaces the value of an equal key, else keeps key order.  *)
RECURSIVE MapInsert(_, _, _)
MapInsert(m, key, value) ==
    IF m = <<>> THEN <<Member(key, value)>>
    ELSE IF m[1].k = key THEN <<Member(key, value)>> \o Tail(m)
    ELSE IF KeyLess(key, m[1].k) THEN <<Member(key, value)>> \o m
    ELSE <<m[1]>> \o MapInsert(Tail(m), key, value)

(* Value::get(key): Some(member) of an object that has the key, else None. *)
RECURSIVE MapGet(_, _)
MapGet(m, key) ==
    IF m = <<>> THEN NoneValue
    ELSE IF m[1].k = key THEN SomeValue(m[1].v)
    ELSE MapGet(Tail(m), key)

Get(value, key) == IF value.t = "obj" THEN MapGet(value.m, key) ELSE NoneValue

-----------------------------------------------------------------------------
(* Value::to_string: the compact serialization.                            *)

RECURSIVE FormatNat(_)
FormatNat(x) ==
    IF x < 10 THEN <<DigitChars[x + 1]>>
    ELSE FormatNat(x \div 10) \o <<DigitChars[(x % 10) + 1]>>

FormatInt(x) == IF x < 0 THEN <<"-">> \o FormatNat(0 - x) ELSE FormatNat(x)

EscapeChar(c) ==
    CASE c = Q -> <<BS, Q>>
      [] c = BS -> <<BS, BS>>
      [] c = LF -> <<BS, "n">>
      [] c = CR -> <<BS, "r">>
      [] c = TAB -> <<BS, "t">>
      [] OTHER -> <<c>>

RECURSIVE Escape(_)
Escape(str) == IF str = <<>> THEN <<>> ELSE EscapeChar(str[1]) \o Escape(Tail(str))

Quote(str) == <<Q>> \o Escape(str) \o <<Q>>

RECURSIVE Serialize(_)
RECURSIVE SerializeMembers(_, _)
RECURSIVE SpacedMembers(_, _)
SpacedMembers(m, keyed) ==
    IF m = <<>> THEN <<>>
    ELSE LET e == (IF keyed THEN Quote(m[1].k) \o <<":", " ">> ELSE <<>>) \o Serialize(m[1].v)
         IN IF Len(m) = 1 THEN e ELSE e \o <<",", " ">> \o SpacedMembers(Tail(m), keyed)

(* The compact formatter of serde_json, which Value::to_string uses: the   *)
(* members one after the other with nothing but ":" and "," between them.  *)
SerializeMembers(m, keyed) ==
    IF m = <<>> THEN <<>>
    ELSE LET e == (IF keyed THEN Quote(m[1].k) \o <<":">> ELSE <<>>) \o Serialize(m[1].v)
         IN IF Len(m) = 1 THEN e ELSE e \o <<",">> \o SerializeMembers(Tail(m), keyed)

Serialize(value) ==
    CASE value.t = "null" -> WordNull
      [] value.t = "bool" -> IF value.n = 1 THEN WordTrue ELSE WordFalse
      [] value.t = "num" -> FormatInt(value.n)
      [] value.t = "str" -> Quote(value.s)
      [] value.t = "arr" -> <<"[">> \o SerializeMembers(value.m, FALSE) \o <<"]">>
      [] value.t = "obj" -> <<"{">> \o SerializeMembers(value.m, TRUE) \o <<"}">>

-----------------------------------------------------------------------------
(* serde_json::from_str: a recursive-descent parse of the whole text.      *)
(* Numbers are the integers; fractions and exponents do not occur here.    *)

IsJsonWs(c) == c \in {" ", LF, CR, TAB}

RECURSIVE SkipWs(_, _)
SkipWs(text, i) == IF i <= Len(text) /\ IsJsonWs(text[i]) THEN SkipWs(text, i + 1) ELSE i

ParseFail == [ok |-> FALSE, v |-> JNull, i |-> 0]
ParseOk(value, next) == [ok |-> TRUE, v |-> value, i |-> next]

HasPrefixAt(text, i, word) ==
    /\ i + Len(word) - 1 <= Len(text)
    /\ SubSeq(text, i, i + Len(word) - 1) = word

ParseWord(text, i, word, value) ==
    IF HasPrefixAt(text, i, word) THEN ParseOk(value, i + Len(word)) ELSE ParseFail

RECURSIVE ParseDigits(_, _, _)
ParseDigits(text, i, acc) ==
    IF i <= Len(text) /\ text[i] \in DigitSet
    THEN ParseDigits(text, i + 1, acc * 10 + DigitVal(text[i]))
    ELSE [n |-> acc, i |-> i]

ParseNumber(text, i) ==
    LET neg == text[i] = "-"
        j == IF neg THEN i + 1 ELSE i
    IN IF j > Len(text) \/ text[j] \notin DigitSet THEN ParseFail
       ELSE IF text[j] = "0" THEN ParseOk(JNum(0), j + 1)
       ELSE LET d == ParseDigits(text, j, 0)
            IN ParseOk(JNum(IF neg THEN 0 - d.n ELSE d.n), d.i)

Unescape(c) ==
    CASE c = "n" -> LF
      [] c = "r" -> CR
      [] c = "t" -> TAB
      [] OTHER -> c

(* The characters of a string literal, text[i] being the one after the     *)
(* opening quote; s is the string, i the index after the closing quote.    *)
RECURSIVE ParseChars(_, _, _)
ParseChars(text, i, acc) ==
    IF i > Len(text) THEN [ok |-> FALSE, s |-> <<>>, i |-> 0]
    ELSE IF text[i] = Q THEN [ok |-> TRUE, s |-> acc, i |-> i + 1]
    ELSE IF text[i] \in {LF, CR, TAB} THEN [ok |-> FALSE, s |-> <<>>, i |-> 0]
    ELSE IF text[i] = BS
         THEN IF i + 1 <= Len(text) /\ text[i + 1] \in {Q, BS, "/", "n", "r", "t"}
              THEN ParseChars(text, i + 2, Append(acc, Unescape(text[i + 1])))
              ELSE [ok |-> FALSE, s |-> <<>>, i |-> 0]
    ELSE ParseChars(text, i + 1, Append(acc, text[i]))

RECURSIVE ParseValue(_, _)
RECURSIVE ParseElements(_, _, _)
RECURSIVE ParseMembers(_, _, _)

(* After "[" or after a comma: the next element, then "," or "]".          *)
ParseElements(text, i, acc) ==
    LET r == ParseValue(text, i)
        j == SkipWs(text, r.i)
    IN IF ~r.ok \/ j > Len(text) THEN ParseFail
       ELSE IF text[j] = "," THEN ParseElements(text, j + 1, Append(acc, r.v))
       ELSE IF text[j] = "]" THEN ParseOk(JArr(Append(acc, r.v)), j + 1)
       ELSE ParseFail

(* After "{" or after a comma: "key" : value, then "," or "}".             *)
ParseMembers(text, i, acc) ==
    LET j == SkipWs(text, i)
    IN IF j > Len(text) \/ text[j] /= Q THEN ParseFail
       ELSE LET key == ParseChars(text, j + 1, <<>>)
                c == SkipWs(text, key.i)
            IN IF ~key.ok \/ c > Len(text) \/ text[c] /= ":" THEN ParseFail
               ELSE LET r == ParseValue(text, c + 1)
                        e == SkipWs(text, r.i)
                    IN IF ~r.ok \/ e > Len(text) THEN ParseFail
                       ELSE IF text[e] = ","
                            THEN ParseMembers(text, e + 1, MapInsert(acc, key.s, r.v))
                       ELSE IF text[e] = "}"
                            THEN ParseOk(JObj(MapInsert(acc, key.s, r.v)), e + 1)
                       ELSE ParseFail

ParseValue(text, i) ==
    LET j == SkipWs(text, i)
    IN IF j > Len(text) THEN ParseFail
       ELSE CASE text[j] = "n" -> ParseWord(text, j, WordNull, JNull)
              [] text[j] = "t" -> ParseWord(text, j, WordTrue, JBool(TRUE))
              [] text[j] = "f" -> ParseWord(text, j, WordFalse, JBool(FALSE))
              [] text[j] = "-" \/ text[j] \in DigitSet -> ParseNumber(text, j)
              [] text[j] = Q ->
                    LET str == ParseChars(text, j + 1, <<>>)
                    IN IF str.ok THEN ParseOk(JStr(str.s), str.i) ELSE ParseFail
              [] text[j] = "[" ->
                    LET e == SkipWs(text, j + 1)
                    IN IF e <= Len(text) /\ text[e] = "]" THEN ParseOk(JArr(<<>>), e + 1)
                       ELSE ParseElements(text, j + 1, <<>>)
              [] text[j] = "{" ->
                    LET e == SkipWs(text, j + 1)
                    IN IF e <= Len(text) /\ text[e] = "}" THEN ParseOk(JObj(<<>>), e + 1)
                       ELSE ParseMembers(text, j + 1, <<>>)
              [] OTHER -> ParseFail

(* from_str: Ok(value) iff one value spans the text up to trailing space.  *)
FromStr(text) ==
    LET r == ParseValue(text, 1)
    IN IF r.ok /\ SkipWs(text, r.i) > Len(text) THEN SomeValue(r.v) ELSE NoneValue

-----------------------------------------------------------------------------
(* The request builders.                                                   *)

file_uri(file_path) == UriScheme \o file_path

FileUri == file_uri(FilePath)

RECURSIVE ObjectOf(_)
ObjectOf(members) ==
    IF members = <<>> THEN <<>>
    ELSE MapInsert(ObjectOf(SubSeq(members, 1, Len(members) - 1)),
                   members[Len(members)].k, members[Len(members)].v)

Json(members) == JObj(ObjectOf(members))

IdOnEveryRequest(method, params, id) ==
    LET request == Json(<<Member(KeyJsonrpc, JStr(RPC_VERSION)),
                          Member(KeyMethod, JStr(method)),
                          Member(KeyParams, params)>>)
    IN JObj(MapInsert(request.m, KeyId, JNum(IF id.some THEN id.v ELSE 0)))

(* create_request: the id member is inserted only for Some(id).            *)
create_request(method, params, id) ==
    LET request == Json(<<Member(KeyJsonrpc, JStr(RPC_VERSION)),
                          Member(KeyMethod, JStr(method)),
                          Member(KeyParams, params)>>)
    IN IF id.some THEN JObj(MapInsert(request.m, KeyId, JNum(id.v))) ELSE request

UncountedLineEnd(request) ==
    LET request_json == Serialize(request) \o <<CR, LF>>
        content_length == Len(Serialize(request))
    IN HeaderToken \o FormatNat(content_length) \o <<CR, LF, CR, LF>> \o request_json

generate_rpc_request(request) ==
    LET request_json == Serialize(request) \o <<CR, LF>>
        content_length == Len(request_json)
    IN HeaderToken \o FormatNat(content_length) \o <<CR, LF, CR, LF>> \o request_json

TextDocumentUri(file_uri_str) == Json(<<Member(KeyUri, JStr(file_uri_str))>>)

Position(line, character) ==
    Json(<<Member(KeyLine, JNum(line)), Member(KeyCharacter, JNum(character))>>)

initialize_request(n) ==
    generate_rpc_request(create_request(MethodInitialize, Json(<<>>), SomeId(n)))

did_open_request(file_uri_str, source) ==
    generate_rpc_request(create_request(MethodDidOpen,
        Json(<<Member(KeyTextDocument,
                      Json(<<Member(KeyUri, JStr(file_uri_str)),
                             Member(KeyLanguageId, JStr(LANGUAGE_ID)),
                             Member(KeyVersion, JNum(1)),
                             Member(KeyText, JStr(source))>>))>>),
        NoneId))

definition_request(n, file_uri_str, line, character) ==
    generate_rpc_request(create_request(MethodDefinition,
        Json(<<Member(KeyTextDocument, TextDocumentUri(file_uri_str)),
               Member(KeyPosition, Position(line, character))>>),
        SomeId(n)))

reference_request(n, file_uri_str, line, character) ==
    generate_rpc_request(create_request(MethodReferences,
        Json(<<Member(KeyTextDocument, TextDocumentUri(file_uri_str)),
               Member(KeyPosition, Position(line, character))>>),
        SomeId(n)))

document_symbol_request(n, file_uri_str) ==
    generate_rpc_request(create_request(MethodDocumentSymbol,
        Json(<<Member(KeyTextDocument, TextDocumentUri(file_uri_str))>>),
        SomeId(n)))

did_close_request(file_uri_str) ==
    generate_rpc_request(create_request(MethodDidClose,
        Json(<<Member(KeyTextDocument, TextDocumentUri(file_uri_str))>>),
        NoneId))

exit_request == generate_rpc_request(create_request(MethodExit, JNull, NoneId))

-----------------------------------------------------------------------------
(* The frame decoder.                                                      *)

IsWhitespace(c) == c \in {" ", LF, CR, TAB}

RECURSIVE TrimStart(_)
TrimStart(str) ==
    IF str /= <<>> /\ IsWhitespace(str[1]) THEN TrimStart(Tail(str)) ELSE str

RECURSIVE TrimEnd(_)
TrimEnd(str) ==
    IF str /= <<>> /\ IsWhitespace(str[Len(str)])
    THEN TrimEnd(SubSeq(str, 1, Len(str) - 1))
    ELSE str

Trim(str) == TrimEnd(TrimStart(str))

StartsWith(str, pattern) == HasPrefixAt(str, 1, pattern)

(* str::trim_start_matches: strips every leading repetition of pattern.    *)
RECURSIVE TrimStartMatches(_, _)
TrimStartMatches(str, pattern) ==
    IF StartsWith(str, pattern)
    THEN TrimStartMatches(SubSeq(str, Len(pattern) + 1, Len(str)), pattern)
    ELSE str

(* str::parse::<usize>: an optional "+" and then one or more digits.       *)
ParseUsize(str) ==
    LET digits == IF str /= <<>> /\ str[1] = "+" THEN Tail(str) ELSE str
    IN IF digits /= <<>> /\ \A i \in 1..Len(digits) : digits[i] \in DigitSet
       THEN [ok |-> TRUE, n |-> ParseDigits(digits, 1, 0).n]
       ELSE [ok |-> FALSE, n |-> 0]

(* Index of the first occurrence of c in buf, 0 if there is none.          *)
IndexOf(buf, c) ==
    LET found == {i \in 1..Len(buf) : buf[i] = c}
    IN IF found = {} THEN 0 ELSE CHOOSE i \in found : \A j \in found : i <= j

Outcome(kind, value, rest) == [kind |-> kind, value |-> value, rest |-> rest]

DelimiterNotRead(buf, closed) ==
    LET nl == IndexOf(buf, LF)
        line == IF nl = 0 THEN buf ELSE SubSeq(buf, 1, nl)
        after == SubSeq(buf, Len(line) + 1, Len(buf))
    IN IF nl = 0 /\ ~closed THEN Outcome("wait", NoneValue, buf)
       ELSE IF Len(line) = 0 THEN Outcome("eof", NoneValue, buf)
       ELSE IF StartsWith(line, HeaderToken)
       THEN LET length == ParseUsize(Trim(TrimStartMatches(line, HeaderToken)))
            IN IF ~length.ok THEN Outcome("panic", NoneValue, after)
               ELSE IF Len(after) < length.n
               THEN IF closed THEN Outcome("panic", NoneValue, <<>>)
                    ELSE Outcome("wait", NoneValue, buf)
               ELSE LET json_str == TrimEnd(SubSeq(after, 1, length.n))
                        rest == SubSeq(after, 1 + length.n, Len(after))
                        parsed == FromStr(json_str)
                    IN IF json_str = <<>> THEN Outcome("empty", NoneValue, rest)
                       ELSE IF parsed.some THEN Outcome("value", parsed, rest)
                       ELSE Outcome("raw", NoneValue, rest)
       ELSE Outcome("unexpected", NoneValue, after)

(* One call of consume_json_rpc_message on a reader holding buf, closed    *)
(* telling that the write end is closed.  kind is                          *)
(*   "value"       Some(value)                                             *)
(*   "eof"         None at end of stream                                   *)
(*   "unexpected"  None, "Unexpected line" surfaced                        *)
(*   "empty"       None, "Received empty JSON message" surfaced            *)
(*   "raw"         None, the body that is not JSON surfaced                *)
(*   "panic"       an expect() failed: the calling thread unwinds          *)
(*   "wait"        the read blocks until more bytes arrive                 *)
consume_json_rpc_message(buf, closed) ==
    LET nl == IndexOf(buf, LF)
        line == IF nl = 0 THEN buf ELSE SubSeq(buf, 1, nl)
        after == SubSeq(buf, Len(line) + 1, Len(buf))
    IN IF nl = 0 /\ ~closed THEN Outcome("wait", NoneValue, buf)
       ELSE IF Len(line) = 0 THEN Outcome("eof", NoneValue, buf)
       ELSE IF StartsWith(line, HeaderToken)
       THEN LET length_str == TrimStartMatches(line, HeaderToken)
                length == ParseUsize(Trim(length_str))
            IN IF ~length.ok THEN Outcome("panic", NoneValue, after)
               ELSE IF Len(after) < 2 + length.n
               THEN IF closed THEN Outcome("panic", NoneValue, <<>>)
                    ELSE Outcome("wait", NoneValue, buf)
               ELSE LET json_buffer == SubSeq(after, 3, 2 + length.n)
                        rest == SubSeq(after, 3 + length.n, Len(after))
                        json_str == TrimEnd(json_buffer)
                        parsed == FromStr(json_str)
                    IN IF json_str = <<>> THEN Outcome("empty", NoneValue, rest)
                       ELSE IF parsed.some THEN Outcome("value", parsed, rest)
                       ELSE Outcome("raw", NoneValue, rest)
       ELSE Outcome("unexpected", NoneValue, after)

-----------------------------------------------------------------------------
(* Bounds of the model.                                                    *)

MaxCommands == 2
MaxEmit == 2
MaxStreamEmit == 3
MaxStreamCommands == 1
MaxValues == 2
PipeCapacity == 2
MaxDiagCommands == 2
MaxDiagEmit == 1
OsPipeCapacity == 65536
StdinCapacity == 256
StdoutCapacity == 100
MaxPipeCommands == 1
MaxPipeEmit == 3

-----------------------------------------------------------------------------
(* The renderers, as far as their result decides what the pump does next.  *)

display_definition(json_value) == Get(json_value, KeyResult).some

IsStr(option) == option.some /\ option.v.t = "str"

SymbolOk(symbol) ==
    /\ IsStr(Get(symbol, KeyName))
    /\ Get(symbol, KeyLocation).some
    /\ Get(Get(symbol, KeyLocation).v, KeyRange).some
    /\ IsStr(Get(Get(symbol, KeyLocation).v, KeyUri))

display_symbols(json_value) ==
    LET result == Get(json_value, KeyResult)
    IN /\ result.some
       /\ result.v.t = "arr"
       /\ result.v.m /= <<>>
       /\ \A i \in 1..Len(result.v.m) : SymbolOk(result.v.m[i].v)

(* The method of a table entry, as display_json_rpc_message reads it.      *)
MethodOf(command) ==
    IF IsStr(Get(command, KeyMethod)) THEN Get(command, KeyMethod).v.s ELSE UnknownMethod

FindAnyRequest(table, id) ==
    IF \E i \in 1..Len(table) : Get(table[i], KeyId).some
    THEN CHOOSE i \in 1..Len(table) :
            /\ Get(table[i], KeyId).some
            /\ \A j \in 1..(i - 1) : ~Get(table[j], KeyId).some
    ELSE 0

(* The loop over the table: the index of the first entry whose id equals   *)
(* the id of the response, 0 when there is none.                           *)
FindCommand(table, id) ==
    IF \E i \in 1..Len(table) : Get(table[i], KeyId) = SomeValue(id)
    THEN CHOOSE i \in 1..Len(table) :
            /\ Get(table[i], KeyId) = SomeValue(id)
            /\ \A j \in 1..(i - 1) : Get(table[j], KeyId) /= SomeValue(id)
    ELSE 0

(* The match on the method of the entry found: TRUE is Ok(()).             *)
DisplayMatched(command, value) ==
    CASE MethodOf(command) = MethodDefinition -> display_definition(value)
      [] MethodOf(command) = MethodDocumentSymbol -> display_symbols(value)
      [] OTHER -> TRUE

-----------------------------------------------------------------------------
(* The console and the language server: what the environment can supply.   *)

EndOfInput == <<>>
ConsoleLine(word) == word \o <<LF>>
ConsoleLines ==
    {EndOfInput, <<LF>>, ConsoleLine(StrHelp), ConsoleLine(StrDef), ConsoleLine(StrSym),
     ConsoleLine(StrRef), ConsoleLine(StrQuit)}

ServerFrame(value) ==
    HeaderToken \o FormatNat(Len(Serialize(value))) \o <<CR, LF, CR, LF>> \o Serialize(value)

ResponseResult(k) ==
    Json(<<Member(KeyJsonrpc, JStr(RPC_VERSION)), Member(KeyId, JNum(k)),
           Member(KeyResult, JNull)>>)

ResponseError(k) ==
    Json(<<Member(KeyJsonrpc, JStr(RPC_VERSION)), Member(KeyId, JNum(k)),
           Member(KeyError, Json(<<Member(KeyCode, JNum(0 - 32601)),
                                   Member(KeyMessage, JStr(<<"e">>))>>))>>)

ServerNotification ==
    Json(<<Member(KeyJsonrpc, JStr(RPC_VERSION)), Member(KeyMethod, JStr(<<"l", "o", "g">>)),
           Member(KeyParams, JNull)>>)

JunkLine == <<"o", "o", "p", "s", LF>>
BadLengthFrame == HeaderToken \o <<"1", "x", CR, LF, CR, LF, "{", "}">>
EmptyBodyFrame == HeaderToken \o <<"2", CR, LF, CR, LF, CR, LF>>
NonJsonFrame == HeaderToken \o <<"4", CR, LF, CR, LF, "o", "o", "p", "s">>


-----------------------------------------------------------------------------
(* The state.                                                              *)

VARIABLES
    count,        \* Count behind count: Arc<Mutex<Count>>
    countLock,    \* holder of the count mutex: "free" or "loop"
    commands,     \* Vec<Value> behind commands: Arc<Mutex<Vec<Value>>>
    tableLock,    \* holder of the commands mutex: "free", "loop" or "pump"
    loopPc,       \* position of handle_stdin
    command,      \* the console line handle_stdin last read
    request,      \* the frame built by the def or sym arm, between write and push
    nread,        \* number of console lines read
    written,      \* the frames written to the server's stdin, in order, each as the
                  \* method and id the server decodes from it
    srvRead,      \* how many of the frames written the server has read
    setting,      \* the session's surroundings: the bytes the stdin and the stdout
                  \* pipe hold, and whether the server reads its stdin at once
    srvAlive,     \* the server runs: it holds its end of the three pipes
    srvWriting,   \* the emission the server is blocked writing to its full stdout
    srvBlocked,   \* the server is blocked in a write to its full stderr pipe
    stderrBuf,    \* the number of lines in the server's stderr pipe, not read yet
    emitted,      \* what the server wrote to its stdout, in order
    stdoutBuf,    \* the bytes of the server's stdout not read yet
    pumpPc,       \* position of handle_stdout
    json_value,   \* the Option<Value> handle_stdout got from the decoder
    outcomes,     \* the kind of outcome of each decoder call, in order
    delivered,    \* what display_json_rpc_message did with each Some(value)
    coordPc,      \* position of run_server
    stderr_handle, \* the Option holding the thread of handle_stderr: "None" or "Some"
    reported,     \* what run_server itself printed to the operator, in order
    values,       \* codec check: the JSON values to encode
    stream,       \* codec check: the bytes the decoder has not read yet
    frames,       \* codec check: the frames encoded, in order
    decoded       \* codec check: the results of the decoder calls, in order

sessionVars ==
    <<count, countLock, commands, tableLock, loopPc, command, request, nread, written,
      srvRead, setting, srvWriting,
      srvAlive, srvBlocked, stderrBuf, emitted, stdoutBuf, pumpPc, json_value,
      outcomes, delivered, coordPc, stderr_handle, reported>>
codecVars == <<values, stream, frames, decoded>>
vars == <<sessionVars, codecVars>>

loopVars == <<count, countLock, commands, loopPc, command, request, nread, written, srvRead>>
serverVars == <<setting, srvAlive, srvBlocked, srvWriting, stderrBuf, emitted>>
pumpVars == <<pumpPc, json_value, outcomes, delivered>>
coordVars == <<coordPc, stderr_handle, reported>>

NoEmission == [some |-> FALSE, e |-> [kind |-> "none", id |-> 0]]

(* The state in which run_server starts, but for the surroundings.         *)
Start ==
    /\ count = 0
    /\ countLock = "free"
    /\ commands = <<>>
    /\ tableLock = "free"
    /\ loopPc = "unstarted"
    /\ command = <<>>
    /\ request = <<>>
    /\ nread = 0
    /\ written = <<>>
    /\ srvRead = 0
    /\ srvAlive = FALSE
    /\ srvWriting = NoEmission
    /\ srvBlocked = FALSE
    /\ stderrBuf = 0
    /\ emitted = <<>>
    /\ stdoutBuf = <<>>
    /\ pumpPc = "unstarted"
    /\ json_value = NoneValue
    /\ outcomes = <<>>
    /\ delivered = <<>>
    /\ coordPc = "spawn"
    /\ stderr_handle = "None"
    /\ reported = <<>>

(* The pipes of the operating system, which no session of a few commands   *)
(* fills, and a server that reads each frame as it arrives.                *)
SessionInit ==
    /\ Start
    /\ setting = [stdin |-> OsPipeCapacity, stdout |-> OsPipeCapacity, prompt |-> TRUE]

CodecIdle ==
    /\ values = <<>>
    /\ stream = <<>>
    /\ frames = <<>>
    /\ decoded = <<>>

Init == SessionInit /\ CodecIdle

-----------------------------------------------------------------------------
(* handle_stdin: the interactive loop.                                     *)

(* What the server decodes from a frame written to its stdin.             *)
Envelope(frame) ==
    LET body == consume_json_rpc_message(frame, TRUE).value
    IN [method |-> IF body.some THEN MethodOf(body.v) ELSE UnknownMethod,
        id |-> IF body.some THEN Get(body.v, KeyId) ELSE NoneValue,
        length |-> Len(frame)]

(* The bytes in the stdin pipe: the frames written that the server has not *)
(* read yet.                                                               *)
RECURSIVE Unread(_)
Unread(i) == IF i > Len(written) THEN 0 ELSE written[i].length + Unread(i + 1)

StdinBytes == Unread(srvRead + 1)

(* The pipe takes the whole frame.                                         *)
StdinRoom(frame) == StdinBytes + Len(frame) <= setting.stdin

IncStuck(c) == c

(* Count::inc: the new value of the counter, which is also what it returns. *)
Inc(c) == c + 1

(* stdin.write_all(frame)?: the frame reaches the pipe, which blocks the   *)
(* writer while the pipe has no room for it, or the write fails because    *)
(* the server closed its end and handle_stdin returns the Err, dropping    *)
(* the guards it holds.                                                    *)
WriteAll(frame, next) ==
    IF srvAlive
    THEN /\ StdinRoom(frame)
         /\ written' = Append(written, Envelope(frame))
         /\ srvRead' = IF setting.prompt THEN Len(written) + 1 ELSE srvRead
         /\ loopPc' = next
    ELSE /\ written' = written
         /\ srvRead' = srvRead
         /\ loopPc' = "failed"

DidOpenBeforeInitialize ==
    /\ loopPc = "initialize"
    /\ WriteAll(did_open_request(FileUri, Source), "did_open")
    /\ UNCHANGED <<count, countLock, commands, tableLock, command, request, nread>>
    /\ UNCHANGED <<serverVars, stdoutBuf, pumpVars, coordVars, codecVars>>

(* The first block of handle_stdin: the id is taken and the initialize     *)
(* request written under the lock of the counter, which the block releases *)
(* at its end.                                                             *)
LoopInitialize ==
    /\ loopPc = "initialize"
    /\ count' = Inc(count)
    /\ WriteAll(initialize_request(Inc(count)), "did_open")
    /\ UNCHANGED <<countLock, commands, tableLock, command, request, nread>>
    /\ UNCHANGED <<serverVars, stdoutBuf, pumpVars, coordVars, codecVars>>

LoopDidOpen ==
    /\ loopPc = "did_open"
    /\ WriteAll(did_open_request(FileUri, Source), "readline")
    /\ UNCHANGED <<count, countLock, commands, tableLock, command, request, nread>>
    /\ UNCHANGED <<serverVars, stdoutBuf, pumpVars, coordVars, codecVars>>

EmptyWhenTrimmed(str) == Trim(str) = <<>>

(* String::is_empty: no bytes at all, which read_line leaves only at the   *)
(* end of the input.                                                       *)
is_empty(str) == Len(str) = 0

(* readline(), the is_empty() test, count.lock() and commands.lock().  No  *)
(* one else takes the count mutex, and the pump holds the table only for   *)
(* the length of a lookup.  The console has at most limit lines before its *)
(* end.                                                                    *)
LoopReadLine(lines, limit) ==
    /\ loopPc = "readline"
    /\ tableLock = "free"
    /\ \E l \in lines :
          /\ nread < limit \/ l = EndOfInput
          /\ command' = l
          /\ nread' = IF l = EndOfInput THEN nread ELSE nread + 1
          /\ IF is_empty(l)
             THEN /\ loopPc' = "did_close"
                  /\ UNCHANGED <<countLock, tableLock>>
             ELSE /\ loopPc' = "match"
                  /\ countLock' = "loop"
                  /\ tableLock' = "loop"
    /\ UNCHANGED <<count, commands, request, written, srvRead>>
    /\ UNCHANGED <<serverVars, stdoutBuf, pumpVars, coordVars, codecVars>>

UnknownIsFatal ==
    /\ loopPc = "match"
    /\ Trim(command) \notin {StrDef, StrSym}
    /\ commands' = commands
    /\ loopPc' = IF Trim(command) \in {StrHelp, StrQuit} THEN "did_close" ELSE "failed"
    /\ countLock' = "free"
    /\ tableLock' = "free"
    /\ UNCHANGED <<count, command, request, nread, written, srvRead>>
    /\ UNCHANGED <<serverVars, stdoutBuf, pumpVars, coordVars, codecVars>>

(* The arms that only push a placeholder: help, quit and the default arm.  *)
LoopPlaceholder ==
    /\ loopPc = "match"
    /\ Trim(command) \notin {StrDef, StrSym}
    /\ commands' = Append(commands,
                          JStr(CASE Trim(command) = StrHelp -> StrHelp
                                 [] Trim(command) = StrQuit -> StrQuit
                                 [] OTHER -> StrUnknown))
    /\ loopPc' = IF Trim(command) = StrQuit THEN "did_close" ELSE "readline"
    /\ countLock' = "free"
    /\ tableLock' = "free"
    /\ UNCHANGED <<count, command, request, nread, written, srvRead>>
    /\ UNCHANGED <<serverVars, stdoutBuf, pumpVars, coordVars, codecVars>>

DefWriteUnlocked ==
    /\ loopPc = "match"
    /\ Trim(command) = StrDef
    /\ count' = Inc(count)
    /\ LET frame == definition_request(Inc(count), FileUri, 9, 4)
       IN /\ WriteAll(frame, "push")
          /\ request' = IF srvAlive THEN frame ELSE <<>>
    /\ countLock' = "free"
    /\ tableLock' = "free"
    /\ UNCHANGED <<commands, command, nread>>
    /\ UNCHANGED <<serverVars, stdoutBuf, pumpVars, coordVars, codecVars>>

(* The def arm up to the write: both guards stay held across write_all.    *)
LoopDef ==
    /\ loopPc = "match"
    /\ Trim(command) = StrDef
    /\ count' = Inc(count)
    /\ LET frame == definition_request(Inc(count), FileUri, 9, 4)
       IN /\ WriteAll(frame, "push")
          /\ request' = IF srvAlive THEN frame ELSE <<>>
    /\ countLock' = IF srvAlive THEN countLock ELSE "free"
    /\ tableLock' = IF srvAlive THEN tableLock ELSE "free"
    /\ UNCHANGED <<commands, command, nread>>
    /\ UNCHANGED <<serverVars, stdoutBuf, pumpVars, coordVars, codecVars>>

(* The sym arm up to the write: count_guard is dropped before write_all.   *)
LoopSym ==
    /\ loopPc = "match"
    /\ Trim(command) = StrSym
    /\ count' = Inc(count)
    /\ LET frame == document_symbol_request(Inc(count), FileUri)
       IN /\ WriteAll(frame, "push")
          /\ request' = IF srvAlive THEN frame ELSE <<>>
    /\ countLock' = "free"
    /\ tableLock' = IF srvAlive THEN tableLock ELSE "free"
    /\ UNCHANGED <<commands, command, nread>>
    /\ UNCHANGED <<serverVars, stdoutBuf, pumpVars, coordVars, codecVars>>

(* request.split("\r\n\r\n").last(): what follows the last occurrence of  *)
(* the delimiter, the whole string when there is none.                     *)
SplitLast(str, delimiter) ==
    LET found == {i \in 1..Len(str) : HasPrefixAt(str, i, delimiter)}
    IN IF found = {} THEN str
       ELSE LET last == CHOOSE i \in found : \A j \in found : j <= i
            IN SubSeq(str, last + Len(delimiter), Len(str))

PushKeepsGuards ==
    /\ loopPc = "push"
    /\ LET parsed == FromStr(SplitLast(request, <<CR, LF, CR, LF>>))
       IN IF parsed.some
          THEN /\ commands' = Append(commands, parsed.v)
               /\ loopPc' = "readline"
          ELSE /\ commands' = commands
               /\ loopPc' = "panicked"
    /\ request' = <<>>
    /\ UNCHANGED <<countLock, tableLock>>
    /\ UNCHANGED <<count, command, nread, written, srvRead>>
    /\ UNCHANGED <<serverVars, stdoutBuf, pumpVars, coordVars, codecVars>>

(* The rest of the def and sym arms: the frame is parsed back and pushed,  *)
(* and the guards are dropped at the end of the loop body.                 *)
LoopPush ==
    /\ loopPc = "push"
    /\ LET parsed == FromStr(SplitLast(request, <<CR, LF, CR, LF>>))
       IN IF parsed.some
          THEN /\ commands' = Append(commands, parsed.v)
               /\ loopPc' = "readline"
          ELSE /\ commands' = commands
               /\ loopPc' = "panicked"
    /\ request' = <<>>
    /\ countLock' = "free"
    /\ tableLock' = "free"
    /\ UNCHANGED <<count, command, nread, written, srvRead>>
    /\ UNCHANGED <<serverVars, stdoutBuf, pumpVars, coordVars, codecVars>>

LoopDidClose ==
    /\ loopPc = "did_close"
    /\ WriteAll(did_close_request(FileUri), "exit")
    /\ UNCHANGED <<count, countLock, commands, tableLock, command, request, nread>>
    /\ UNCHANGED <<serverVars, stdoutBuf, pumpVars, coordVars, codecVars>>

ExitNotSent ==
    /\ loopPc = "exit"
    /\ loopPc' = "done"
    /\ UNCHANGED <<count, countLock, commands, tableLock, command, request, nread, written, srvRead>>
    /\ UNCHANGED <<serverVars, stdoutBuf, pumpVars, coordVars, codecVars>>

LoopExit ==
    /\ loopPc = "exit"
    /\ WriteAll(exit_request, "done")
    /\ UNCHANGED <<count, countLock, commands, tableLock, command, request, nread>>
    /\ UNCHANGED <<serverVars, stdoutBuf, pumpVars, coordVars, codecVars>>


(* The frame the loop writes next from where it is, if it is at a write.   *)
NextFrame ==
    CASE loopPc = "initialize" -> initialize_request(Inc(count))
      [] loopPc = "did_open" -> did_open_request(FileUri, Source)
      [] loopPc = "match" /\ Trim(command) = StrDef ->
            definition_request(Inc(count), FileUri, 9, 4)
      [] loopPc = "match" /\ Trim(command) = StrSym ->
            document_symbol_request(Inc(count), FileUri)
      [] loopPc = "did_close" -> did_close_request(FileUri)
      [] loopPc = "exit" -> exit_request
      [] OTHER -> <<>>

(* The loop is inside a write_all that the full stdin pipe keeps from      *)
(* returning.                                                              *)
WriteBlocked == NextFrame /= <<>> /\ srvAlive /\ ~StdinRoom(NextFrame)
-----------------------------------------------------------------------------
(* handle_stdout: the response pump.                                       *)

Delivery(value, entry, ok) ==
    [id |-> Get(value, KeyId), entry |-> entry, ok |-> ok]

(* One call of consume_json_rpc_message and, unless the value carries an   *)
(* id, of display_json_rpc_message: a failed expect() unwinds the thread,  *)
(* None gives the Err that makes the pump break, and a value without an id *)
(* is printed as it is.  A value with an id goes on to commands.lock().    *)
PumpConsume ==
    /\ pumpPc = "consume"
    /\ LET r == consume_json_rpc_message(stdoutBuf, ~srvAlive)
       IN /\ r.kind /= "wait"
          /\ outcomes' = Append(outcomes, r.kind)
          /\ stdoutBuf' = r.rest
          /\ IF r.kind = "panic"
             THEN /\ pumpPc' = "panicked"
                  /\ UNCHANGED <<json_value, delivered>>
             ELSE IF ~r.value.some
             THEN /\ pumpPc' = "stopped"
                  /\ UNCHANGED <<json_value, delivered>>
             ELSE IF ~Get(r.value.v, KeyId).some
             THEN /\ pumpPc' = "consume"
                  /\ delivered' = Append(delivered, Delivery(r.value.v, 0, TRUE))
                  /\ UNCHANGED json_value
             ELSE /\ pumpPc' = "lock_commands"
                  /\ json_value' = r.value
                  /\ UNCHANGED delivered
    /\ UNCHANGED tableLock
    /\ UNCHANGED <<loopVars, serverVars, coordVars, codecVars>>

UnmatchedIsErr(entry, found, value) == entry /= 0 /\ DisplayMatched(found, value)

(* What display_json_rpc_message returns for a value with an id, entry     *)
(* being the index of the entry found and found that entry: the Ok or Err  *)
(* of the renderer of a match, Ok after the generic print otherwise.       *)
DisplayResult(entry, found, value) ==
    IF entry /= 0 THEN DisplayMatched(found, value) ELSE TRUE

LookupRemoves ==
    /\ pumpPc = "lock_commands"
    /\ tableLock = "free"
    /\ LET entry == FindCommand(commands, Get(json_value.v, KeyId).v)
           ok == DisplayResult(entry, IF entry = 0 THEN JNull ELSE commands[entry],
                               json_value.v)
       IN /\ delivered' = Append(delivered, Delivery(json_value.v, entry, ok))
          /\ pumpPc' = IF ok THEN "consume" ELSE "stopped"
          /\ commands' = IF entry = 0 THEN commands
                       ELSE [i \in 1..(Len(commands) - 1) |->
                               IF i < entry THEN commands[i] ELSE commands[i + 1]]
    /\ json_value' = NoneValue
    /\ UNCHANGED <<outcomes, stdoutBuf, tableLock>>
    /\ UNCHANGED <<count, countLock, loopPc, command, request, nread, written, srvRead>>
    /\ UNCHANGED <<serverVars, coordVars, codecVars>>

(* commands.lock(), which blocks while the loop holds the table, the       *)
(* search of the table and the rendering, all under the lock.  An Err of   *)
(* the renderer makes the pump break.                                      *)
PumpLookup ==
    /\ pumpPc = "lock_commands"
    /\ tableLock = "free"
    /\ LET entry == FindCommand(commands, Get(json_value.v, KeyId).v)
           ok == DisplayResult(entry, IF entry = 0 THEN JNull ELSE commands[entry],
                               json_value.v)
       IN /\ delivered' = Append(delivered, Delivery(json_value.v, entry, ok))
          /\ pumpPc' = IF ok THEN "consume" ELSE "stopped"
    /\ json_value' = NoneValue
    /\ UNCHANGED <<outcomes, stdoutBuf, tableLock>>
    /\ UNCHANGED <<loopVars, serverVars, coordVars, codecVars>>

-----------------------------------------------------------------------------
(* The language server behind the pipes.  It reads its stdin as frames     *)
(* arrive.                                                                 *)

(* The ids of the requests the server has read so far.                     *)
ReadIds == {written[i].id.v.n : i \in {j \in 1..srvRead : written[j].id.some}}

WellFormed == {"result", "error", "notification"}
Malformed == {"junk", "bad_length", "empty_body", "non_json"}

Emissions(kinds) ==
    {e \in [kind : {"result", "error"}, id : ReadIds]
           \cup [kind : {"notification"} \cup Malformed, id : {0}] : e.kind \in kinds}

EmissionBytes(e) ==
    CASE e.kind = "result" -> ServerFrame(ResponseResult(e.id))
      [] e.kind = "error" -> ServerFrame(ResponseError(e.id))
      [] e.kind = "notification" -> ServerFrame(ServerNotification)
      [] e.kind = "junk" -> JunkLine
      [] e.kind = "bad_length" -> BadLengthFrame
      [] e.kind = "empty_body" -> EmptyBodyFrame
      [] e.kind = "non_json" -> NonJsonFrame

(* The stdout pipe takes the whole of an emission.                         *)
StdoutRoom(e) == Len(stdoutBuf) + Len(EmissionBytes(e)) <= setting.stdout

(* The server is inside a write that a full pipe keeps from returning.     *)
ServerBusy == srvBlocked \/ srvWriting.some

(* The server reads a frame from its stdin, when it does not read each     *)
(* frame as it arrives.                                                    *)
ServerRead ==
    /\ srvAlive
    /\ ~ServerBusy
    /\ ~setting.prompt
    /\ srvRead < Len(written)
    /\ srvRead' = srvRead + 1
    /\ UNCHANGED <<count, countLock, commands, loopPc, command, request, nread, written>>
    /\ UNCHANGED <<serverVars, stdoutBuf, tableLock, pumpVars, coordVars, codecVars>>

(* The server writes to its stdout while the pump holds the read end: the  *)
(* bytes go into the pipe when it has room for them, and the write blocks  *)
(* when it has not.                                                        *)
ServerEmit(kinds, limit) ==
    /\ srvAlive
    /\ ~ServerBusy
    /\ pumpPc \notin {"stopped", "panicked"}
    /\ Len(emitted) < limit
    /\ \E e \in Emissions(kinds) :
          IF StdoutRoom(e)
          THEN /\ emitted' = Append(emitted, e)
               /\ stdoutBuf' = stdoutBuf \o EmissionBytes(e)
               /\ UNCHANGED srvWriting
          ELSE /\ srvWriting' = [some |-> TRUE, e |-> e]
               /\ UNCHANGED <<emitted, stdoutBuf>>
    /\ UNCHANGED <<setting, srvAlive, srvBlocked, stderrBuf, tableLock>>
    /\ UNCHANGED <<loopVars, pumpVars, coordVars, codecVars>>

(* A write to stdout that was blocked returns: the pump has made room for  *)
(* the bytes, or it has dropped the read end and the write fails.          *)
ServerFlush ==
    /\ srvAlive
    /\ srvWriting.some
    /\ IF pumpPc \in {"stopped", "panicked"}
       THEN UNCHANGED <<emitted, stdoutBuf>>
       ELSE /\ StdoutRoom(srvWriting.e)
            /\ emitted' = Append(emitted, srvWriting.e)
            /\ stdoutBuf' = stdoutBuf \o EmissionBytes(srvWriting.e)
    /\ srvWriting' = NoEmission
    /\ UNCHANGED <<setting, srvAlive, srvBlocked, stderrBuf, tableLock>>
    /\ UNCHANGED <<loopVars, pumpVars, coordVars, codecVars>>

(* The server writes a line to its stderr, which start_server_process made *)
(* a pipe: the line goes into the pipe while there is room, and the write  *)
(* blocks when the pipe is full, until someone reads the other end.        *)
ServerLog ==
    /\ srvAlive
    /\ ~ServerBusy
    /\ IF stderrBuf < PipeCapacity
       THEN /\ stderrBuf' = stderrBuf + 1
            /\ UNCHANGED srvBlocked
       ELSE /\ srvBlocked' = TRUE
            /\ UNCHANGED stderrBuf
    /\ UNCHANGED <<setting, srvAlive, srvWriting, emitted, stdoutBuf, tableLock>>
    /\ UNCHANGED <<loopVars, pumpVars, coordVars, codecVars>>

(* The server exits, on the exit notification or on its own: its ends of   *)
(* the pipes close.                                                        *)
ServerExit ==
    /\ srvAlive
    /\ ~ServerBusy
    /\ srvAlive' = FALSE
    /\ UNCHANGED <<setting, srvBlocked, srvWriting, stderrBuf, emitted, stdoutBuf, tableLock>>
    /\ UNCHANGED <<loopVars, pumpVars, coordVars, codecVars>>

-----------------------------------------------------------------------------
(* handle_stderr: the diagnostic pump.                                     *)

(* One turn of the loop over reader.lines(): a line leaves the pipe and a  *)
(* server blocked on the full pipe goes on.  The thread exists only when   *)
(* run_server was given print_stderr.                                      *)
HandleStderr ==
    /\ stderr_handle = "Some"
    /\ stderrBuf > 0
    /\ stderrBuf' = stderrBuf - 1
    /\ srvBlocked' = FALSE
    /\ UNCHANGED <<setting, srvAlive, srvWriting, emitted, stdoutBuf, tableLock>>
    /\ UNCHANGED <<loopVars, pumpVars, coordVars, codecVars>>

-----------------------------------------------------------------------------
(* run_server and main.                                                    *)

(* The print_stderr that main passes to run_server.                        *)
print_stderr == FALSE

(* start_server_process: the server runs behind three pipes, or the Err is *)
(* printed and run_server returns.                                         *)
CoordSpawn ==
    /\ coordPc = "spawn"
    /\ \E spawned \in BOOLEAN :
          IF spawned
          THEN /\ srvAlive' = TRUE
               /\ coordPc' = "start"
               /\ reported' = reported
          ELSE /\ srvAlive' = FALSE
               /\ coordPc' = "aborted"
               /\ reported' = Append(reported, "spawn_failed")
    /\ UNCHANGED <<setting, srvBlocked, srvWriting, stderrBuf, emitted, stdoutBuf>>
    /\ UNCHANGED <<stderr_handle, tableLock>>
    /\ UNCHANGED <<loopVars, pumpVars, codecVars>>

(* The file is read and the threads are spawned: handle_stdin, then        *)
(* handle_stdout, and handle_stderr when print_stderr is set.  A file that *)
(* cannot be processed fails the expect() before any thread is spawned.    *)
CoordStart ==
    /\ coordPc = "start"
    /\ \E processed \in BOOLEAN :
          IF processed
          THEN /\ loopPc' = "initialize"
               /\ pumpPc' = "consume"
               /\ stderr_handle' = IF print_stderr THEN "Some" ELSE "None"
               /\ coordPc' = "join_stdin"
          ELSE /\ coordPc' = "panicked"
               /\ UNCHANGED <<loopPc, pumpPc, stderr_handle>>
    /\ UNCHANGED <<count, countLock, commands, command, request, nread, written, srvRead>>
    /\ UNCHANGED <<json_value, outcomes, delivered, reported>>
    /\ UNCHANGED <<serverVars, stdoutBuf, tableLock, codecVars>>

JoinStdinSkipped ==
    /\ coordPc = "join_stdin"
    /\ coordPc' = "join_stdout"
    /\ UNCHANGED <<stderr_handle, reported>>
    /\ UNCHANGED <<loopVars, serverVars, pumpVars, stdoutBuf, tableLock, codecVars>>

(* stdin_handle.join().expect(..): returns when handle_stdin has returned, *)
(* and fails when the thread panicked.                                     *)
CoordJoinStdin ==
    /\ coordPc = "join_stdin"
    /\ loopPc \in {"done", "failed", "panicked"}
    /\ coordPc' = IF loopPc = "panicked" THEN "panicked" ELSE "join_stdout"
    /\ UNCHANGED <<stderr_handle, reported>>
    /\ UNCHANGED <<loopVars, serverVars, pumpVars, stdoutBuf, tableLock, codecVars>>

(* stdout_handle.join().expect(..), after which the stderr thread is       *)
(* joined only when there is one.                                          *)
CoordJoinStdout ==
    /\ coordPc = "join_stdout"
    /\ pumpPc \in {"stopped", "panicked"}
    /\ coordPc' = IF pumpPc = "panicked" THEN "panicked"
                  ELSE IF stderr_handle = "Some" THEN "join_stderr" ELSE "wait"
    /\ UNCHANGED <<stderr_handle, reported>>
    /\ UNCHANGED <<loopVars, serverVars, pumpVars, stdoutBuf, tableLock, codecVars>>

(* stderr_handle.join(): handle_stderr returns at the end of the stream.   *)
CoordJoinStderr ==
    /\ coordPc = "join_stderr"
    /\ ~srvAlive
    /\ stderrBuf = 0
    /\ coordPc' = "wait"
    /\ UNCHANGED <<stderr_handle, reported>>
    /\ UNCHANGED <<loopVars, serverVars, pumpVars, stdoutBuf, tableLock, codecVars>>

(* child.wait(): returns the status of the server once it has exited; a    *)
(* status that is not a success is printed.                                *)
CoordWait ==
    /\ coordPc = "wait"
    /\ ~srvAlive
    /\ coordPc' = "done"
    /\ \E success \in BOOLEAN :
          reported' = IF success THEN reported ELSE Append(reported, "status")
    /\ UNCHANGED stderr_handle
    /\ UNCHANGED <<loopVars, serverVars, pumpVars, stdoutBuf, tableLock, codecVars>>

-----------------------------------------------------------------------------
(* The codec on its own: values are encoded onto a stream that is decoded  *)
(* one call at a time, the writer closing the stream after the last frame. *)

JsonValues ==
    {JNull, JBool(TRUE), JNum(0), JNum(0 - 17), JNum(1234567),
     JStr(<<>>), JStr(<<"a", Q, BS, LF, CR, TAB, " ">>),
     JArr(<<>>), JArr(<<JNum(1), JNull, JStr(<<"a">>)>>),
     Json(<<>>),
     Json(<<Member(<<"b">>, JArr(<<Json(<<>>)>>)), Member(<<"a">>, JBool(FALSE))>>),
     create_request(MethodDocumentSymbol,
                    Json(<<Member(KeyTextDocument, TextDocumentUri(FileUri))>>), SomeId(2)),
     create_request(MethodExit, JNull, NoneId)}

CodecInit ==
    /\ SessionInit
    /\ values \in UNION {[1..n -> JsonValues] : n \in 1..MaxValues}
    /\ stream = <<>>
    /\ frames = <<>>
    /\ decoded = <<>>

CodecEncode ==
    /\ Len(frames) < Len(values)
    /\ LET frame == generate_rpc_request(values[Len(frames) + 1])
       IN /\ frames' = Append(frames, frame)
          /\ stream' = stream \o frame
    /\ UNCHANGED <<values, decoded, sessionVars>>

CodecDecode ==
    /\ IF decoded = <<>> THEN TRUE ELSE decoded[Len(decoded)].kind \notin {"eof", "panic"}
    /\ LET r == consume_json_rpc_message(stream, Len(frames) = Len(values))
       IN /\ r.kind /= "wait"
          /\ decoded' = Append(decoded, [kind |-> r.kind, value |-> r.value])
          /\ stream' = r.rest
    /\ UNCHANGED <<values, frames, sessionVars>>

CodecNext == CodecEncode \/ CodecDecode

CodecSpec == CodecInit /\ [][CodecNext]_vars

-----------------------------------------------------------------------------
(* The session with a server whose output is well formed.                  *)

Next ==
    \/ CoordSpawn
    \/ CoordStart
    \/ LoopInitialize
    \/ LoopDidOpen
    \/ LoopReadLine(ConsoleLines, MaxCommands)
    \/ LoopPlaceholder
    \/ LoopDef
    \/ LoopSym
    \/ LoopPush
    \/ LoopDidClose
    \/ LoopExit
    \/ PumpConsume
    \/ PumpLookup
    \/ ServerEmit(WellFormed, MaxEmit)
    \/ ServerExit
    \/ CoordJoinStdin
    \/ CoordJoinStdout
    \/ CoordWait

Spec == Init /\ [][Next]_vars

(* The session with a server whose output may be malformed, the operator   *)
(* issuing def commands only.                                              *)

StreamLines == {EndOfInput, ConsoleLine(StrDef)}

StreamNext ==
    \/ CoordSpawn
    \/ CoordStart
    \/ LoopInitialize
    \/ LoopDidOpen
    \/ LoopReadLine(StreamLines, MaxStreamCommands)
    \/ LoopDef
    \/ LoopPush
    \/ LoopDidClose
    \/ LoopExit
    \/ PumpConsume
    \/ PumpLookup
    \/ ServerEmit(WellFormed \cup Malformed, MaxStreamEmit)
    \/ ServerExit
    \/ CoordJoinStdin
    \/ CoordJoinStdout
    \/ CoordWait

StreamSpec == Init /\ [][StreamNext]_vars


(* The session with a server that also writes to its stderr, the operator  *)
(* issuing def and quit.                                                   *)

DiagLines == {EndOfInput, ConsoleLine(StrDef), ConsoleLine(StrQuit)}

DiagNext ==
    \/ CoordSpawn
    \/ CoordStart
    \/ LoopInitialize
    \/ LoopDidOpen
    \/ LoopReadLine(DiagLines, MaxDiagCommands)
    \/ LoopPlaceholder
    \/ LoopDef
    \/ LoopPush
    \/ LoopDidClose
    \/ LoopExit
    \/ PumpConsume
    \/ PumpLookup
    \/ ServerEmit(WellFormed, MaxDiagEmit)
    \/ ServerLog
    \/ ServerExit
    \/ CoordJoinStdin
    \/ CoordJoinStdout
    \/ CoordWait

DiagSpec == Init /\ [][DiagNext]_vars

(* The session over pipes that hold a frame or two, with a server that     *)
(* reads its stdin when it comes to it and writes results and              *)
(* notifications, the operator issuing def commands only.                  *)

PipeLines == {EndOfInput, ConsoleLine(StrDef)}

PipeInit ==
    /\ Start
    /\ setting = [stdin |-> StdinCapacity, stdout |-> StdoutCapacity, prompt |-> FALSE]
    /\ CodecIdle

PipeNext ==
    \/ CoordSpawn
    \/ CoordStart
    \/ LoopInitialize
    \/ LoopDidOpen
    \/ LoopReadLine(PipeLines, MaxPipeCommands)
    \/ LoopDef
    \/ LoopPush
    \/ LoopDidClose
    \/ LoopExit
    \/ PumpConsume
    \/ PumpLookup
    \/ ServerRead
    \/ ServerEmit({"result", "notification"}, MaxPipeEmit)
    \/ ServerFlush
    \/ ServerExit
    \/ CoordJoinStdin
    \/ CoordJoinStdout
    \/ CoordWait

PipeSpec == PipeInit /\ [][PipeNext]_vars

(* The steps the loop and the pump can take without waiting for anyone.    *)
(* The loop waits in readline() and in a write to a full pipe; the pump    *)
(* waits for bytes while its pipe is open and empty, and for the table     *)
(* while the loop holds it.                                                *)
LoopCanStep ==
    /\ loopPc \in {"initialize", "did_open", "match", "push", "did_close", "exit"}
    /\ ~WriteBlocked

PumpCanStep ==
    \/ pumpPc = "consume" /\ (stdoutBuf /= <<>> \/ ~srvAlive)
    \/ pumpPc = "lock_commands" /\ tableLock = "free"

LoopStep == loopPc' /= loopPc

PumpStep == pumpVars' /= pumpVars

(* The threads are scheduled: a thread that can take a step does not stay  *)
(* where it is for ever.  For run_server this is the weak fairness of each *)
(* of its steps.  For the loop and for the pump it is the weak fairness of *)
(* the thread's steps taken together, written out with the condition under *)
(* which the thread can step, so that the decoder need not be evaluated to *)
(* tell whether a step is possible.  Nothing is assumed of the operator or *)
(* of the server.                                                          *)
Scheduling ==
    /\ WF_vars(CoordSpawn)
    /\ WF_vars(CoordStart)
    /\ WF_vars(CoordJoinStdin)
    /\ WF_vars(CoordJoinStdout)
    /\ WF_vars(CoordWait)
    /\ []<>(~LoopCanStep) \/ []<><<LoopStep>>_vars
    /\ []<>(~PumpCanStep) \/ []<><<PumpStep>>_vars

LiveSpec == DiagSpec /\ Scheduling

(* The session with a server whose output may be malformed, with threads   *)
(* that are scheduled.                                                     *)
StreamLiveSpec == StreamSpec /\ Scheduling
-----------------------------------------------------------------------------
(* Properties.                                                             *)

Last(seq) == seq[Len(seq)]

IdOf(entry) == Get(entry, KeyId)

Registered == {i \in 1..Len(commands) : IdOf(commands[i]).some}

(* C1: a response bearing the id of a registered request is resolved to    *)
(* exactly that request: the registered ids are pairwise distinct, each    *)
(* registered request is the one frame written with its id, and every      *)
(* response delivered with that id was paired with that entry of the       *)
(* table, whatever the order of the responses.                             *)
C1_Correlation ==
    /\ \A i, j \in Registered : IdOf(commands[i]) = IdOf(commands[j]) => i = j
    /\ \A i \in Registered :
          Cardinality({w \in 1..Len(written) :
                          /\ written[w].id = IdOf(commands[i])
                          /\ written[w].method = MethodOf(commands[i])}) = 1
    /\ \A d \in 1..Len(delivered) : \A i \in Registered :
          delivered[d].id = IdOf(commands[i]) => delivered[d].entry = i

(* def issued twice, ids 2 and 3, the response to the second delivered     *)
(* before the response to the first, each paired with its own request.     *)
C1_Witness ==
    /\ Len(commands) = 2
    /\ MethodOf(commands[1]) = MethodDefinition
    /\ MethodOf(commands[2]) = MethodDefinition
    /\ Len(delivered) = 2
    /\ delivered[1] = [id |-> SomeValue(JNum(3)), entry |-> 2, ok |-> TRUE]
    /\ delivered[2] = [id |-> SomeValue(JNum(2)), entry |-> 1, ok |-> TRUE]

WithId == {w \in 1..Len(written) : written[w].id.some}

(* C2: the ids of the id-bearing requests written to the server increase   *)
(* strictly in the order of writing, hence are pairwise distinct, and the  *)
(* first of them is the initialize request with id 1.                      *)
C2_Identifiers ==
    /\ \A v, w \in WithId : v < w => written[v].id.v.n < written[w].id.v.n
    /\ \A w \in WithId :
          written[w].method \in {MethodInitialize, MethodDefinition,
                                 MethodDocumentSymbol, MethodReferences}
    /\ written /= <<>> =>
          /\ written[1].method = MethodInitialize
          /\ written[1].id = SomeValue(JNum(1))

(* initialize, def and sym written with the ids 1, 2 and 3.                *)
C2_Witness ==
    /\ Len(written) >= 4
    /\ written[1].id = SomeValue(JNum(1))
    /\ written[3].method = MethodDefinition /\ written[3].id = SomeValue(JNum(2))
    /\ written[4].method = MethodDocumentSymbol /\ written[4].id = SomeValue(JNum(3))

Closing == {"did_close", "exit", "done", "failed"}

IsNotification(envelope, method) == envelope.method = method /\ ~envelope.id.some

(* The frames of the closing path, as far as the loop has got on it.        *)
ClosingFrames ==
    /\ loopPc = "exit" => IsNotification(Last(written), MethodDidClose)
    /\ loopPc = "done" =>
          /\ Len(written) >= 2
          /\ IsNotification(written[Len(written) - 1], MethodDidClose)
          /\ IsNotification(Last(written), MethodExit)

(* The loop takes a line off the console.                                  *)
Reads(l) == loopPc = "readline" /\ loopPc' /= "readline" /\ command' = l

(* The loop leaves the match on the line l.                                *)
Dispatches(l) == loopPc = "match" /\ loopPc' /= "match" /\ command = l

Kinds(log) == [i \in 1..Len(log) |-> log[i].kind]

Diagnostics == {"unexpected", "empty", "raw"}

(* C4, as claimed: of a well-formed frame, a frame whose Content-Length is *)
(* not a number and another well-formed frame, the pump delivers the first *)
(* and the third and surfaces one diagnostic for the second, and neither   *)
(* the pump thread nor the coordinator's join of it fails.                 *)
C4_MalformedFrameRecovery ==
    Kinds(emitted) = <<"notification", "bad_length", "notification">> =>
        /\ pumpPc /= "panicked"
        /\ coordPc /= "panicked"
        /\ (stdoutBuf = <<>> /\ pumpPc = "consume") =>
              /\ Len(outcomes) = 3
              /\ outcomes[1] = "value"
              /\ outcomes[2] \in Diagnostics
              /\ outcomes[3] = "value"
              /\ Len(delivered) = 2

(* C5, as claimed: a decoder call that yields no message before the end of *)
(* the stream never stops the pump.                                        *)
C5_NoMessageRecoverable ==
    ~(pumpPc = "stopped" /\ outcomes /= <<>> /\ Last(outcomes) \in Diagnostics)

Unregistered(id) == ~id.some \/ \A i \in 1..Len(commands) : IdOf(commands[i]) /= id

(* C6: a decoded response whose id is not in the table, or that has no id, *)
(* is printed as it is and gives Ok, whatever the table holds; the pump    *)
(* goes on to the next frame.                                              *)
C6_UnmatchedResponse ==
    /\ [](\A d \in 1..Len(delivered) :
             Unregistered(delivered[d].id) => delivered[d].entry = 0 /\ delivered[d].ok)
    /\ [][(delivered' /= delivered /\ Unregistered(Last(delivered').id))
             => pumpPc' = "consume"]_vars

(* The response to initialize, whose id was never registered, is delivered *)
(* as unmatched while the table holds a placeholder and a request, and the *)
(* frame after it is handled too.                                          *)
C6_Witness ==
    /\ Len(delivered) = 2
    /\ delivered[1] = [id |-> SomeValue(JNum(1)), entry |-> 0, ok |-> TRUE]
    /\ \E i \in 1..Len(commands) : commands[i].t = "str"
    /\ Registered /= {}

RECURSIVE Concat(_)
Concat(seqs) == IF seqs = <<>> THEN <<>> ELSE seqs[1] \o Concat(Tail(seqs))

Min(a, b) == IF a < b THEN a ELSE b

(* C7: decoding the stream of encoded frames yields the encoded values,    *)
(* one per call and in order, then the end of the stream; what is left of  *)
(* the stream after a call is exactly the frames not decoded yet.          *)
C7_RoundTrip ==
    /\ \A i \in 1..Len(decoded) :
          IF i <= Len(values)
          THEN decoded[i] = [kind |-> "value", value |-> SomeValue(values[i])]
          ELSE decoded[i] = [kind |-> "eof", value |-> NoneValue]
    /\ Len(decoded) <= Len(values) + 1
    /\ stream = Concat(SubSeq(frames, Min(Len(decoded), Len(values)) + 1, Len(frames)))

(* Two different values, one of them a string with escapes and trailing    *)
(* white space, decoded and followed by the end of the stream.             *)
C7_Witness ==
    /\ Len(values) = 2
    /\ values[1] = JStr(<<"a", Q, BS, LF, CR, TAB, " ">>)
    /\ values[2] /= values[1]
    /\ Len(decoded) = 3

Delimiter == <<CR, LF, CR, LF>>

HeaderEnd(frame) == CHOOSE i \in 1..Len(frame) :
                        /\ HasPrefixAt(frame, i, Delimiter)
                        /\ \A j \in 1..(i - 1) : ~HasPrefixAt(frame, j, Delimiter)

Declared(frame) == ParseUsize(SubSeq(frame, Len(HeaderToken) + 1, HeaderEnd(frame) - 1))

(* C8: in every encoded frame the number in the Content-Length header is   *)
(* the number of bytes that follow the blank line ending the header.       *)
C8_ContentLength ==
    \A f \in 1..Len(frames) :
        /\ StartsWith(frames[f], HeaderToken)
        /\ \E i \in 1..Len(frames[f]) : HasPrefixAt(frames[f], i, Delimiter)
        /\ Declared(frames[f]).ok
        /\ Declared(frames[f]).n = Len(frames[f]) - (HeaderEnd(frames[f]) + Len(Delimiter) - 1)

(* A frame with a one-digit length and a frame with a three-digit one.     *)
C8_Witness ==
    /\ Len(frames) = 2
    /\ Declared(frames[1]).n < 10
    /\ Declared(frames[2]).n >= 100

(* C9, as claimed: on ref the loop writes a textDocument/references        *)
(* request with a fresh id and registers it, as it does for def and sym.   *)
C9_RefRequest ==
    (loopPc = "readline" /\ Trim(command) = StrRef) =>
        /\ written /= <<>>
        /\ Last(written).method = MethodReferences
        /\ Last(written).id = SomeValue(JNum(count))
        /\ commands /= <<>>
        /\ MethodOf(Last(commands)) = MethodReferences
        /\ IdOf(Last(commands)) = SomeValue(JNum(count))

QuitOrEnd == command = EndOfInput \/ Trim(command) = StrQuit

(* C10: on quit or at the end of the console input the loop writes, after  *)
(* everything written before and unless a write fails, the didClose        *)
(* notification and then the exit notification, both without an id, and    *)
(* ends without writing anything else; didClose and exit are written on no *)
(* other path.                                                             *)
C10_ClosingPath ==
    /\ [][(Reads(EndOfInput) \/ Dispatches(ConsoleLine(StrQuit)))
            => (loopPc' = "did_close" /\ written' = written)]_vars
    /\ []ClosingFrames
    /\ [](\A w \in 1..Len(written) :
             written[w].method \in {MethodDidClose, MethodExit} =>
                /\ ~written[w].id.some
                /\ QuitOrEnd
                /\ loopPc \in Closing
                /\ w >= Len(written) - 1
                /\ written[w].method = MethodExit =>
                      /\ w = Len(written)
                      /\ written[w - 1].method = MethodDidClose
                /\ (written[w].method = MethodDidClose /\ w < Len(written)) =>
                      written[w + 1].method = MethodExit)
    /\ [](loopPc \in {"did_close", "exit", "done"} => QuitOrEnd)
    /\ [][(loopPc \in {"done", "failed"}) => (written' = written /\ loopPc' = loopPc)]_vars

(* def, then quit: the loop has ended and the last two of the five frames  *)
(* written are didClose and exit.                                          *)
C10_Witness ==
    /\ loopPc = "done"
    /\ Trim(command) = StrQuit
    /\ Len(written) = 5
    /\ written[3].method = MethodDefinition
    /\ IsNotification(written[4], MethodDidClose)
    /\ IsNotification(written[5], MethodExit)

(* The loop leaves the match on help or on a line it does not recognise.   *)
DispatchesSilent ==
    /\ loopPc = "match"
    /\ loopPc' /= "match"
    /\ Trim(command) \notin {StrDef, StrSym, StrQuit}

(* C11: help and any input that is not recognised produce no protocol      *)
(* traffic and are never fatal: handling such a line writes no frame,      *)
(* leaves the counter as it is, records one placeholder without an id,     *)
(* releases both locks and takes the loop back to reading the next line.   *)
C11_NoTraffic ==
    [][DispatchesSilent =>
          /\ written' = written
          /\ count' = count
          /\ loopPc' = "readline"
          /\ countLock' = "free"
          /\ tableLock' = "free"
          /\ Len(commands') = Len(commands) + 1
          /\ ~IdOf(Last(commands')).some]_vars

(* help, then a line that is not a command: two placeholders, nothing      *)
(* written beyond initialize and didOpen, the counter still 1, and the     *)
(* loop reading again.                                                     *)
C11_Witness ==
    /\ loopPc = "readline"
    /\ nread = 2
    /\ commands = <<JStr(StrHelp), JStr(StrUnknown)>>
    /\ Len(written) = 2
    /\ count = 1

(* run_server has spawned its threads.                                     *)
ThreadsStarted == coordPc \in {"join_stdin", "join_stdout", "join_stderr", "wait", "done"}

(* C12, as claimed: once the threads of a session are started, the loop,   *)
(* the response pump and the diagnostic pump all exist, so that the server *)
(* is never blocked on its full stderr pipe with no thread left to read    *)
(* that pipe.                                                              *)
C12_AllPumpsRun ==
    ThreadsStarted =>
        /\ loopPc /= "unstarted"
        /\ pumpPc /= "unstarted"
        /\ stderr_handle = "Some"
        /\ ~(srvBlocked /\ stderr_handle = "None")

(* The server blocked on its stderr while the session is active.           *)
StalledOnStderr == ThreadsStarted /\ srvAlive /\ srvBlocked /\ stderr_handle = "None"

(* C13, as claimed: the response pump stops only at the end of the         *)
(* server's stdout: whenever it has stopped, its last decoder call found   *)
(* the end of the stream, and no delivery of a decoded response, whatever  *)
(* it carries, has ended in an Err.                                        *)
C13_StopsOnlyAtEndOfStream ==
    /\ pumpPc = "stopped" => (outcomes /= <<>> /\ Last(outcomes) = "eof")
    /\ \A d \in 1..Len(delivered) : delivered[d].ok

(* The loop writes a frame to the server's stdin.                          *)
LoopWrites == written' /= written

(* C14, as claimed: the loop never writes a frame to the server's stdin    *)
(* while it holds the lock of the table.                                   *)
C14_NoWriteUnderTableLock == [][LoopWrites => tableLock /= "loop"]_vars

(* The table holds an entry registered under the id k.                     *)
HasEntry(k) == \E i \in Registered : IdOf(commands[i]) = SomeValue(JNum(k))

(* C15, as claimed: whenever neither lock is held, every id allocated so   *)
(* far, that of initialize included, has an entry in the table, and no two *)
(* entries carry the same id.                                              *)
C15_AllocationRegisters ==
    /\ (countLock = "free" /\ tableLock = "free") => \A k \in 1..count : HasEntry(k)
    /\ \A i, j \in Registered : IdOf(commands[i]) = IdOf(commands[j]) => i = j

(* A write to the server's stdin fails and handle_stdin returns the Err.   *)
LoopFails == loopPc /= "failed" /\ loopPc' = "failed"

(* The response pump leaves its loop.                                      *)
PumpStops == pumpPc /= "stopped" /\ pumpPc' = "stopped"

(* C16, as claimed: a failed write is fatal to the loop only.  The loop    *)
(* stops without writing anything more, didClose and exit included, and    *)
(* holds no lock from then on; the step of the failure leaves the pump as  *)
(* it is, and after it the pump goes on until the end of the server's      *)
(* stdout, which is the only thing that makes it stop.                     *)
C16_WriteFailureLoopOnly ==
    [][/\ LoopFails =>
            /\ written' = written
            /\ countLock' = "free"
            /\ tableLock' = "free"
            /\ pumpVars' = pumpVars
            /\ stdoutBuf' = stdoutBuf
       /\ (loopPc = "failed") =>
            /\ loopPc' = "failed"
            /\ written' = written
            /\ countLock' = "free"
            /\ tableLock' = "free"
       /\ (loopPc = "failed" /\ PumpStops) => Last(outcomes') = "eof"]_vars

(* The loop has got as far as reading the console.                         *)
LoopReadsConsole == loopPc \in {"readline", "match", "push", "did_close", "exit", "done"}

OperatorMethods == {MethodDefinition, MethodDocumentSymbol, MethodReferences}

(* C17: before the loop reads its first console command it has written     *)
(* initialize with the id 1 and then didOpen without an id, in that order, *)
(* and these are the first two frames on the server's stdin: no frame of   *)
(* an operator's command is ever among the first two.                      *)
C17_Handshake ==
    /\ (LoopReadsConsole \/ nread > 0) =>
          /\ Len(written) >= 2
          /\ written[1] = Envelope(initialize_request(1))
          /\ written[1].method = MethodInitialize
          /\ written[1].id = SomeValue(JNum(1))
          /\ IsNotification(written[2], MethodDidOpen)
    /\ \A w \in 1..Len(written) :
          (written[w].method \in OperatorMethods \/ w > 2) =>
              /\ w > 2
              /\ nread > 0 \/ command = EndOfInput
    /\ Len(written) = 1 => written[1].method = MethodInitialize

(* The handshake is on the wire and no console line has been read yet.     *)
C17_Witness ==
    /\ loopPc = "readline"
    /\ nread = 0
    /\ Len(written) = 2
    /\ written[1].id = SomeValue(JNum(1))
    /\ IsNotification(written[2], MethodDidOpen)

NotificationMethods == {MethodDidOpen, MethodDidClose, MethodExit}

IdBearingMethods == {MethodInitialize, MethodDefinition, MethodDocumentSymbol}

(* The loop is at a place where it builds a request that carries an id.    *)
BuildsRequest ==
    \/ loopPc = "initialize"
    \/ loopPc = "match" /\ Trim(command) \in {StrDef, StrSym}

(* C18: didOpen, didClose and exit are written without an id and writing   *)
(* them leaves the counter as it is; the counter changes only by one, and  *)
(* only where the loop builds initialize, def or sym, whose frame carries  *)
(* the new value as its id; so the counter equals the number of requests   *)
(* built with an id, all of them written except one whose write failed.    *)
C18_CounterUse ==
    /\ [](\A w \in 1..Len(written) :
             /\ written[w].method \in NotificationMethods => ~written[w].id.some
             /\ written[w].id.some => written[w].method \in IdBearingMethods
             /\ written[w].method \in IdBearingMethods => written[w].id.some)
    /\ [](Cardinality(WithId) <= count /\ count <= Cardinality(WithId) + 1)
    /\ [](count > Cardinality(WithId) => loopPc = "failed")
    /\ [][(LoopWrites /\ Last(written').method \in NotificationMethods)
             => count' = count]_vars
    /\ [][(count' /= count) => (count' = count + 1 /\ BuildsRequest)]_vars
    /\ [][(LoopWrites /\ Last(written').method \in IdBearingMethods)
             => (count' = count + 1 /\ Last(written').id = SomeValue(JNum(count')))]_vars
    /\ [][(BuildsRequest /\ loopPc' /= loopPc) => count' = count + 1]_vars

(* def, sym and the end of the input: six frames, three with the ids 1, 2  *)
(* and 3, and the counter is 3 after didOpen, didClose and exit.           *)
C18_Witness ==
    /\ loopPc = "done"
    /\ count = 3
    /\ Len(written) = 6
    /\ Cardinality(WithId) = 3
    /\ IsNotification(written[2], MethodDidOpen)
    /\ IsNotification(written[5], MethodDidClose)
    /\ IsNotification(written[6], MethodExit)

LoopFinished == loopPc \in {"done", "failed"}

PumpFinished == pumpPc = "stopped"

(* C19: run_server waits for the server's exit only after handle_stdin and *)
(* every pump it started have returned; the exit status is printed at most *)
(* once, by the wait itself when the status is not a success, hence after  *)
(* all the joins; and a server that cannot be started is reported and ends *)
(* run_server with no thread started and no frame written.                 *)
C19_Coordinator ==
    /\ [](coordPc \in {"wait", "done"} =>
             /\ LoopFinished
             /\ PumpFinished
             /\ stderr_handle = "None")
    /\ [](Len(reported) <= 1)
    /\ [](reported = <<"status">> =>
             /\ coordPc = "done"
             /\ LoopFinished
             /\ PumpFinished
             /\ ~srvAlive)
    /\ [][(reported' /= reported /\ coordPc /= "spawn")
             => (coordPc = "wait" /\ coordPc' = "done" /\ ~srvAlive
                 /\ reported' = Append(reported, "status"))]_vars
    /\ [][(coordPc = "wait" /\ coordPc' /= "wait")
             => (coordPc' = "done" /\ ~srvAlive)]_vars
    /\ [](reported = <<"spawn_failed">> <=> coordPc = "aborted")
    /\ [](coordPc = "aborted" =>
             /\ loopPc = "unstarted"
             /\ pumpPc = "unstarted"
             /\ stderr_handle = "None"
             /\ ~srvAlive
             /\ written = <<>>
             /\ count = 0)
    /\ [][(coordPc = "aborted") => UNCHANGED vars]_vars

(* The session ran to its end and the server's status, not a success, was  *)
(* printed after a session in which a command was issued.                  *)
C19_Witness ==
    /\ coordPc = "done"
    /\ reported = <<"status">>
    /\ loopPc = "done"
    /\ pumpPc = "stopped"
    /\ nread > 0

(* handle_stdin has returned, which drops the ChildStdin and so closes the *)
(* server's stdin; the exit notification, if written, was written before.  *)
StdinClosed == loopPc \in {"done", "failed"}

(* The server assumed by C20: once its stdin is closed it exits, which     *)
(* closes its ends of the pipes.                                           *)
ServerExitsWhenTold == [](StdinClosed => <>(~srvAlive))

(* The loop has left its loop on quit or at the end of the console input.  *)
QuitIssued == loopPc = "did_close"

Terminated == LoopFinished /\ PumpFinished /\ coordPc = "done"

(* C20, as claimed: with a server that exits once it got exit or its stdin *)
(* was closed, a session in which the operator quits or the console ends   *)
(* terminates: the loop and the response pump finish and the wait of       *)
(* run_server for the server's exit returns.                               *)
C20_Termination == ServerExitsWhenTold => (QuitIssued ~> Terminated)

(* What follows the blank line that ends the header of a frame.            *)
Body(frame) == SubSeq(frame, HeaderEnd(frame) + Len(Delimiter), Len(frame))

(* The body of a frame without its last two bytes.                         *)
Text(frame) == SubSeq(Body(frame), 1, Len(Body(frame)) - 2)

(* The number of backslashes that stand right before position j.           *)
BackslashRun(text, j) ==
    CHOOSE k \in 0..(j - 1) :
        /\ \A t \in 1..k : text[j - t] = BS
        /\ k = j - 1 \/ text[j - k - 1] /= BS

(* Position j holds a quote that opens or closes a string.                 *)
StringBoundary(text, j) == text[j] = Q /\ BackslashRun(text, j) % 2 = 0

InString(text, i) ==
    Cardinality({j \in 1..(i - 1) : StringBoundary(text, j)}) % 2 = 1

(* No white space between the tokens of a JSON text.                       *)
Minimal(text) == \A i \in 1..Len(text) : IsJsonWs(text[i]) => InString(text, i)

(* C21, as claimed: a frame is the header with the length L, the blank     *)
(* line and the minimal serialization of the value, L being the length of  *)
(* that serialization, and nothing follows the serialization.              *)
C21_ExactBody ==
    \A f \in 1..Len(frames) :
        frames[f] = HeaderToken \o FormatNat(Len(Serialize(values[f]))) \o Delimiter
                        \o Serialize(values[f])

(* C21, amended: a frame is the header with the length L, the blank line,  *)
(* the minimal serialization of the value and a line terminator, CR LF,    *)
(* which is part of the body: L is the length of the serialization plus    *)
(* two, and nothing else follows the header.                               *)
C21_BodyWithLineEnd ==
    \A f \in 1..Len(frames) :
        /\ frames[f] = HeaderToken \o FormatNat(Len(Text(frames[f])) + 2) \o Delimiter
                           \o Text(frames[f]) \o <<CR, LF>>
        /\ Declared(frames[f]).ok
        /\ Declared(frames[f]).n = Len(Text(frames[f])) + 2
        /\ Minimal(Text(frames[f]))
        /\ FromStr(Text(frames[f])) = SomeValue(values[f])

(* A notification and a string with a blank in it, both encoded.           *)
C21_Witness ==
    /\ Len(frames) = 2
    /\ values[1] = create_request(MethodExit, JNull, NoneId)
    /\ values[2] = JStr(<<"a", Q, BS, LF, CR, TAB, " ">>)

-----------------------------------------------------------------------------
(* The loop is inside the write of a def or sym frame that the full stdin  *)
(* pipe keeps from returning, and holds the table.                         *)
LoopBlockedWriting ==
    /\ loopPc = "match"
    /\ Trim(command) \in {StrDef, StrSym}
    /\ tableLock = "loop"
    /\ WriteBlocked

(* The pump has decoded a response and waits for the table.                *)
PumpBlockedLocking == pumpPc = "lock_commands" /\ json_value.some /\ tableLock /= "free"

(* The server is inside a write that the full stdout pipe keeps from       *)
(* returning, so it reads nothing.                                         *)
ServerBlockedWriting == srvAlive /\ srvWriting.some /\ ~StdoutRoom(srvWriting.e)

CircularWait == LoopBlockedWriting /\ PumpBlockedLocking /\ ServerBlockedWriting

(* C22: with bounded pipe buffers the session never reaches the circular   *)
(* wait in which the loop is blocked writing a def or sym frame to a full  *)
(* stdin pipe while it holds the table lock, the pump is blocked           *)
(* acquiring the table lock for a response it has decoded, and the server  *)
(* is blocked writing to a full stdout pipe.                               *)
C22_NoCircularWait == ~CircularWait

-----------------------------------------------------------------------------
(* The frames of the def and sym commands among those written.             *)
OperatorFrames ==
    {w \in WithId : written[w].method \in {MethodDefinition, MethodDocumentSymbol}}

(* The ids of the def and sym requests the server can see.                 *)
OperatorIds == {written[w].id : w \in OperatorFrames}

(* The table holds an entry under the id, given as the Option of a frame.  *)
Inserted(id) == \E i \in Registered : IdOf(commands[i]) = id

(* C23: the pump never looks up a response to a def or sym request in a    *)
(* table that lacks the entry of the request.  From the moment the frame   *)
(* of the request is in the pipe until its envelope is in the table the    *)
(* loop holds the table lock, and every response delivered under the id of *)
(* such a request was matched with an entry.                               *)
C23_EntryBeforeLookup ==
    /\ \A w \in OperatorFrames : Inserted(written[w].id) \/ tableLock = "loop"
    /\ \A i \in 1..Len(delivered) :
          delivered[i].id \in OperatorIds => delivered[i].entry /= 0

(* The response to a def request was looked up and matched with the entry  *)
(* of the request.                                                         *)
C23_Witness ==
    \E i \in 1..Len(delivered) :
       /\ delivered[i].id \in OperatorIds
       /\ delivered[i].entry /= 0
       /\ IdOf(commands[delivered[i].entry]) = delivered[i].id

-----------------------------------------------------------------------------
(* The pump waits for the table, which the loop holds.                     *)
PumpWaitsForLoop == pumpPc = "lock_commands" /\ tableLock = "loop"

(* C24: the loop holds neither lock while it waits for a console line; it  *)
(* takes the table lock only while it holds the counter lock, taken first, *)
(* and the pump never holds the counter lock; so whenever the pump waits   *)
(* for the table the loop is inside the handling of one command, and it    *)
(* reads no further console line before it has released the table.         *)
C24_LockDiscipline ==
    /\ [](loopPc = "readline" => (countLock = "free" /\ tableLock /= "loop"))
    /\ [](countLock \in {"free", "loop"})
    /\ [][(tableLock /= "loop" /\ tableLock' = "loop") => countLock' = "loop"]_vars
    /\ [](PumpWaitsForLoop => loopPc \in {"match", "push"})
    /\ [][tableLock = "loop" => nread' = nread]_vars

(* The pump has decoded a response and waits while the loop, between the   *)
(* write and the push of a command, holds the table.                       *)
C24_Witness == PumpWaitsForLoop /\ loopPc = "push" /\ nread > 0

-----------------------------------------------------------------------------
(* The table grows at its end or stays as it is.                           *)
AppendOnly ==
    \/ commands' = commands
    \/ /\ Len(commands') = Len(commands) + 1
       /\ SubSeq(commands', 1, Len(commands)) = commands

(* The command last read has no entry yet: it is being handled, or its     *)
(* write failed and handle_stdin returned.                                 *)
Pending ==
    \/ loopPc \in {"match", "push"}
    \/ loopPc = "failed" /\ Trim(command) \in {StrDef, StrSym}

(* An entry is the envelope of a def or sym request, or a placeholder      *)
(* without an id.                                                          *)
EntryKinds ==
    \A i \in 1..Len(commands) :
       IF i \in Registered
       THEN MethodOf(commands[i]) \in {MethodDefinition, MethodDocumentSymbol}
       ELSE commands[i].t = "str"

(* C25: the table is append-only.  No step removes or changes an entry,    *)
(* two responses under the same id resolve to the same entry, and the      *)
(* table holds one entry for each console command processed: an envelope   *)
(* for def and sym, a placeholder without an id for the others.            *)
C25_AppendOnly ==
    /\ [][AppendOnly]_vars
    /\ [](\A i, j \in 1..Len(delivered) :
             delivered[i].id = delivered[j].id => delivered[i].entry = delivered[j].entry)
    /\ [](Len(commands) = nread - (IF Pending THEN 1 ELSE 0))
    /\ []EntryKinds

(* Two responses under the id of a def request were both matched with its  *)
(* entry, which is still in the table after a second command.              *)
C25_Witness ==
    /\ Len(commands) = 2
    /\ \E i, j \in 1..Len(delivered) :
          /\ i < j
          /\ delivered[i].id = delivered[j].id
          /\ delivered[i].entry /= 0
          /\ delivered[j].entry = delivered[i].entry
          /\ IdOf(commands[delivered[i].entry]) = delivered[i].id

====
